---- MODULE Spec2Model ----
(***************************************************************************)
(* A model of ElevationSampler (src/ElevationSampler/core.py): the profile *)
(* builder elevation_profile, the brunnel correctors interpolate_brunnels  *)
(* and interpolate_brunnels_old, and resample_ele.                         *)
(*                                                                         *)
(* Conventions.  Code indices are 0-based, TLA+ sequences 1-based: At(s,k) *)
(* is the code's s[k].  Distances are integers (path units).  Elevations   *)
(* written by the correction are exact rationals <<num, den>> with den > 0 *)
(* in lowest terms; None is <<0, 0>>.  A table row (a DataFrame row) is a  *)
(* record; its field label is the row's index label.                       *)
(***************************************************************************)
EXTENDS Integers, Sequences, FiniteSets, TLC

VARIABLES
    pc,                   \* position in the running function
    args,                 \* the call's scalar parameters (never assigned)
    elevation,            \* parameter elevation (integers)
    distances,            \* parameter / local distances
    brunnels_arg,         \* the caller's brunnels table
    brunnels,             \* the local name brunnels (rebound by concat / filter)
    i,                    \* loop cursor (scan loop, correction loop, sampling loop)
    index,                \* cursor of the merge loop of interpolate_brunnels_old
    data,                 \* rows recorded by the steep-region scan (lines 343-345, 386)
    constructed_brunnels, \* the constructed_brunnels frame
    drop_idx,             \* labels collected for dropping
    ele_brunnel,          \* the working copy of the elevation
    start_ele,            \* the line's start elevation of the last corrected sample
    end_ele,              \* the line's end elevation of the last corrected sample
    sample_points,        \* elevation_profile: the sample points
    sampled,              \* elevation_profile: the three lists filled by its loop
    distances_interpolated,  \* resample_ele: the new distance grid
    window,               \* sample_coords: its locals, <<>> before the call
    result                \* the returned value, <<>> before the return

vars == <<pc, args, elevation, distances, brunnels_arg, brunnels, i, index, data,
          constructed_brunnels, drop_idx, ele_brunnel, start_ele, end_ele,
          sample_points, sampled, distances_interpolated, window, result>>

-----------------------------------------------------------------------------
(* Bounds of the model and constants of the program.                        *)

MaxHalfSteps == 8        \* path lengths and interval ends: up to MaxHalfSteps half steps
MaxBrunnels == 2         \* known intervals passed to interpolate_brunnels
DistanceDelta == 10      \* distance_delta=10, the default
ConstructBrunnelThresh == 3   \* construct_brunnel_thresh=3, the default
DefaultMaxLength == 300  \* max_bridge_length=300, max_tunnel_length=300

-----------------------------------------------------------------------------
(* Arithmetic.                                                              *)

At(s, k) == s[k + 1]

Abs(n) == IF n < 0 THEN -n ELSE n

Last(s) == s[Len(s)]

RECURSIVE GCD(_, _)
GCD(a, b) == IF b = 0 THEN a ELSE GCD(b, a % b)

None == <<0, 0>>

RNorm(n, d) ==
    LET s == IF d < 0 THEN -1 ELSE 1
        g == GCD(Abs(n), Abs(d))
    IN  <<(s * n) \div g, (s * d) \div g>>

ToRat(k) == <<k, 1>>
RAdd(a, b) == RNorm(a[1] * b[2] + b[1] * a[2], a[2] * b[2])
RSub(a, b) == RNorm(a[1] * b[2] - b[1] * a[2], a[2] * b[2])
RMul(a, b) == RNorm(a[1] * b[1], a[2] * b[2])
RDiv(a, b) == RNorm(a[1] * b[2], a[2] * b[1])
RatSeq(s) == [k \in 1..Len(s) |-> ToRat(s[k])]

(* Python's round(n / d) for n >= 0, d > 0: to the nearest integer, a half  *)
(* to the even neighbour.                                                   *)
Round(n, d) ==
    LET f == n \div d
        r == 2 * (n % d)
    IN  IF r < d THEN f
        ELSE IF r > d THEN f + 1
        ELSE IF f % 2 = 0 THEN f ELSE f + 1

(* The grid that also holds stop when stop is a multiple of step.           *)
ArangeInclusive(stop, step) ==
    LET n == IF stop < 0 THEN 0 ELSE stop \div step + 1
    IN  [k \in 1..n |-> (k - 1) * step]

(* np.arange(0, stop, step) for step > 0: 0, step, ... strictly below stop. *)
Arange(stop, step) ==
    LET n == IF stop <= 0 THEN 0 ELSE (stop + step - 1) \div step
    IN  [k \in 1..n |-> (k - 1) * step]

(* np.convolve(elevation, [1, -1], 'same'): the first len(elevation)        *)
(* entries of the full convolution, the input zero-padded on the left.      *)
Convolve(e) ==
    [k \in 1..Len(e) |-> IF k = 1 THEN e[1] ELSE e[k] - e[k - 1]]

-----------------------------------------------------------------------------
(* Tables.                                                                  *)

Row(label, kind, s, t, origin) ==
    [label |-> label, brunnel |-> kind, start_dist |-> s, end_dist |-> t,
     length |-> t - s, origin |-> origin]

(* reset_index(drop=True) / ignore_index=True: labels 0, 1, ... in order.   *)
ResetIndex(rows) ==
    [k \in 1..Len(rows) |-> [rows[k] EXCEPT !.label = k - 1]]

RECURSIVE InsertByStart(_, _)
InsertByStart(r, rows) ==
    IF rows = <<>> THEN <<r>>
    ELSE IF r.start_dist < Head(rows).start_dist THEN <<r>> \o rows
    ELSE <<Head(rows)>> \o InsertByStart(r, Tail(rows))

(* sort_values("start_dist"): rows in increasing start_dist, rows of equal  *)
(* start_dist in their previous order.                                      *)
RECURSIVE SortByStart(_)
SortByStart(rows) ==
    IF rows = <<>> THEN <<>>
    ELSE InsertByStart(Last(rows), SortByStart(SubSeq(rows, 1, Len(rows) - 1)))

-----------------------------------------------------------------------------
(* elevation_profile, lines 149 and 164: the sample distances of a line.    *)

ProfileDistances(length, distance) ==
    Append(Arange(length, distance), length)

-----------------------------------------------------------------------------
(* interpolate_brunnels: the steep-region scan, lines 339-384.              *)

(* lines 353-356 and 370-373: the first j in i+1 .. len-1 at which the      *)
(* elevation is back at elevation[i] (or above, for a bridge; or below, for *)
(* a tunnel); -1 when the inner loop ends without a break.                  *)
ReturnIndex(e, k, kind) ==
    LET back(j) == IF kind = "bridge" THEN At(e, j) >= At(e, k)
                                       ELSE At(e, j) <= At(e, k)
        J == {j \in (k + 1)..(Len(e) - 1) : back(j)}
    IN  IF J = {} THEN -1 ELSE CHOOSE j \in J : \A h \in J : j <= h

(* lines 351 and 369: which branch sample i takes.                          *)
SpanKind(e, k, thresh) ==
    LET diff == Convolve(e)
    IN  IF At(diff, k) < thresh * (-1) THEN "bridge"
        ELSE IF At(diff, k) > thresh THEN "tunnel"
        ELSE "none"

(* The iteration that resumes at the end sample of a closed span instead of *)
(* after it.                                                                *)
ScanIterationResumeAtEnd(e, d, a, k, rows) ==
    LET kind == SpanKind(e, k, a.construct_brunnel_thresh)
        j == IF kind = "none" THEN -1 ELSE ReturnIndex(e, k, kind)
        maxlen == IF kind = "bridge" THEN a.max_bridge_length
                                     ELSE a.max_tunnel_length
    IN  IF j < 0 THEN [i |-> k + 1, data |-> rows]
        ELSE [i |-> j,
              data |-> IF At(d, j) - At(d, k) <= maxlen
                       THEN Append(rows, Row(Len(rows), kind, At(d, k), At(d, j),
                                             "constructed"))
                       ELSE rows]

(* One iteration of the while loop, lines 348-384: the cursor and the       *)
(* recorded rows after it.                                                  *)
ScanIteration(e, d, a, k, rows) ==
    LET kind == SpanKind(e, k, a.construct_brunnel_thresh)
        j == IF kind = "none" THEN -1 ELSE ReturnIndex(e, k, kind)
        maxlen == IF kind = "bridge" THEN a.max_bridge_length
                                     ELSE a.max_tunnel_length
    IN  IF j < 0 THEN [i |-> k + 1, data |-> rows]
        ELSE [i |-> j + 1,
              data |-> IF At(d, j) - At(d, k) <= maxlen
                       THEN Append(rows, Row(Len(rows), kind, At(d, k), At(d, j),
                                             "constructed"))
                       ELSE rows]

(* The filter keeping also the rows exactly distance_delta long.            *)
FilterSmallInclusive(rows, dd) ==
    SelectSeq(rows, LAMBDA r : r.length >= dd)

(* line 391: constructed_brunnels[constructed_brunnels.length > distance_delta] *)
FilterSmall(rows, dd) ==
    SelectSeq(rows, LAMBDA r : r.length > dd)

(* The conflict test without the around_brunnel case.                      *)
OverlapsKnownEndpointsOnly(b, known) ==
    \E k \in 1..Len(known) :
        \/ b.start_dist >= known[k].start_dist /\ b.start_dist <= known[k].end_dist
        \/ b.end_dist >= known[k].start_dist /\ b.end_dist <= known[k].end_dist

(* lines 398-408: the constructed row b conflicts with a row of known.      *)
OverlapsKnown(b, known) ==
    \E k \in 1..Len(known) :
        LET start_in_brunnel == b.start_dist >= known[k].start_dist
                                /\ b.start_dist <= known[k].end_dist
            end_in_brunnel == b.end_dist >= known[k].start_dist
                              /\ b.end_dist <= known[k].end_dist
            around_brunnel == b.start_dist <= known[k].start_dist
                              /\ b.end_dist >= known[k].end_dist
        IN  start_in_brunnel \/ end_in_brunnel \/ around_brunnel

(* lines 396-409: the labels to drop, in row order.                         *)
DropLabels(rows, known) ==
    LET hit == SelectSeq(rows, LAMBDA r : OverlapsKnown(r, known))
    IN  [k \in 1..Len(hit) |-> hit[k].label]

(* line 411: constructed_brunnels.drop(drop_idx)                            *)
DropRows(rows, labels) ==
    SelectSeq(rows, LAMBDA r : \A k \in 1..Len(labels) : labels[k] # r.label)

(* lines 414-417: concat, sort by start_dist, reset the index.              *)
ConcatSorted(known, rows) ==
    ResetIndex(SortByStart(known \o rows))

-----------------------------------------------------------------------------
(* interpolate_brunnels: the correction loop, lines 423-488.                *)

(* The cover test widened by one step on each side, as the one of          *)
(* interpolate_brunnels_old.                                                *)
CoveringBuffered(x, rows) ==
    {k \in 0..(Len(rows) - 1) : x >= At(rows, k).start_dist - DistanceDelta
                                /\ x <= At(rows, k).end_dist + DistanceDelta}

(* line 427: np.argwhere((x >= start_dists) & (x <= end_dists))             *)
Covering(x, rows) ==
    {k \in 0..(Len(rows) - 1) : x >= At(rows, k).start_dist
                                /\ x <= At(rows, k).end_dist}

(* lines 442-443 *)
StartIdx(b, dd) == Round(b.start_dist, dd) - 1
EndIdx(b, dd) == Round(b.end_dist, dd) + 1

(* lines 483-488: the value at x of the line through p1 and p2.             *)
LineAt(p1x, p1y, p2x, p2y, x) ==
    LET m == RDiv(RSub(p2y, p1y), ToRat(p2x - p1x))
        c == RSub(p1y, RMul(m, ToRat(p1x)))
    IN  RAdd(RMul(m, ToRat(x)), c)

(* lines 445-476 (and 268-293): the two elevations the line is drawn        *)
(* between, read from the working copy eb at the buffered indices; status   *)
(* IndexError when an index read is outside eb.                             *)
EndpointElevations(eb, rows, start_idx, end_idx, dd) ==
    LET n == Len(eb)
        readS == start_idx > 0
        readE == end_idx < n - 1
        s1 == IF readS /\ start_idx < n THEN At(eb, start_idx) ELSE None
        e1 == IF readE THEN At(eb, end_idx) ELSE None
        s2 == IF s1 = None THEN e1 ELSE s1
        e2 == IF e1 = None THEN s2 ELSE e1
        last_idx == Round(Last(rows).end_dist, dd)
    IN  IF readS /\ start_idx >= n THEN
            [status |-> "IndexError", start_ele |-> None, end_ele |-> None]
        ELSE IF s2 = None /\ e2 = None THEN
            IF last_idx >= n THEN
                [status |-> "IndexError", start_ele |-> None, end_ele |-> None]
            ELSE [status |-> "ok", start_ele |-> At(eb, 0),
                  end_ele |-> At(eb, last_idx)]
        ELSE [status |-> "ok", start_ele |-> s2, end_ele |-> e2]

(* One iteration of the for loop, lines 423-488, for sample k.              *)
CorrectSample(eb, rows, d, k, dd) ==
    LET x == At(d, k)
        idx == Covering(x, rows)
    IN  IF Cardinality(idx) > 1 THEN
            [status |-> "AssertionError", ele |-> eb, start_ele |-> None,
             end_ele |-> None]
        ELSE IF idx = {} THEN
            [status |-> "ok", ele |-> eb, start_ele |-> None, end_ele |-> None]
        ELSE
            LET b == At(rows, CHOOSE c \in idx : TRUE)
                ends == EndpointElevations(eb, rows, StartIdx(b, dd), EndIdx(b, dd), dd)
            IN  IF ends.status # "ok" THEN
                    [status |-> ends.status, ele |-> eb, start_ele |-> None,
                     end_ele |-> None]
                ELSE
                    [status |-> "ok",
                     ele |-> [eb EXCEPT ![k + 1] =
                                 LineAt(b.start_dist - dd, ends.start_ele,
                                        b.end_dist + dd, ends.end_ele, x)],
                     start_ele |-> ends.start_ele, end_ele |-> ends.end_ele]

-----------------------------------------------------------------------------
(* interpolate_brunnels: the state machine.                                 *)

(* never assigned by interpolate_brunnels *)
otherVars == <<index, sample_points, sampled, distances_interpolated, window>>

(* lines 333-337 *)
Start ==
    /\ pc = "start"
    /\ IF Len(brunnels) = 0 /\ ~args.construct_brunnels
       THEN /\ result' = RatSeq(elevation)
            /\ pc' = "done"
       ELSE /\ result' = result
            /\ pc' = IF args.construct_brunnels THEN "scan" ELSE "copy"
    /\ i' = 0
    /\ UNCHANGED <<args, elevation, distances, brunnels_arg, brunnels, data,
                   constructed_brunnels, ele_brunnel, start_ele, end_ele, drop_idx, otherVars>>

(* lines 348-384: one iteration of the while loop *)
ScanStep ==
    /\ pc = "scan"
    /\ i < Len(elevation)
    /\ LET next == ScanIteration(elevation, distances, args, i, data)
       IN  /\ i' = next.i
           /\ data' = next.data
    /\ UNCHANGED <<pc, args, elevation, distances, brunnels_arg, brunnels,
                   constructed_brunnels, ele_brunnel, start_ele, end_ele, result,
                   drop_idx, otherVars>>

(* lines 386-391: the loop is over; build the frame and filter it *)
FilterConstructed ==
    /\ pc = "scan"
    /\ ~(i < Len(elevation))
    /\ constructed_brunnels' = FilterSmall(data, args.distance_delta)
    /\ pc' = "overlap"
    /\ UNCHANGED <<args, elevation, distances, brunnels_arg, brunnels, i, data,
                   ele_brunnel, start_ele, end_ele, result, drop_idx, otherVars>>

(* lines 396-417 *)
DropOverlapping ==
    /\ pc = "overlap"
    /\ drop_idx' = DropLabels(constructed_brunnels, brunnels)
    /\ constructed_brunnels' = DropRows(constructed_brunnels, drop_idx')
    /\ brunnels' = ConcatSorted(brunnels, constructed_brunnels')
    /\ pc' = "copy"
    /\ UNCHANGED <<args, elevation, distances, brunnels_arg, i, data,
                   ele_brunnel, start_ele, end_ele, result, otherVars>>

(* lines 419-422 *)
CopyElevation ==
    /\ pc = "copy"
    /\ ele_brunnel' = RatSeq(elevation)
    /\ i' = 0
    /\ pc' = "correct"
    /\ UNCHANGED <<args, elevation, distances, brunnels_arg, brunnels, data,
                   constructed_brunnels, start_ele, end_ele, result, drop_idx, otherVars>>

(* lines 423-488: one iteration of the for loop *)
CorrectStep ==
    /\ pc = "correct"
    /\ i < Len(distances)
    /\ LET step == CorrectSample(ele_brunnel, brunnels, distances, i,
                                 args.distance_delta)
       IN  /\ ele_brunnel' = step.ele
           /\ start_ele' = step.start_ele
           /\ end_ele' = step.end_ele
           /\ pc' = IF step.status = "ok" THEN "correct" ELSE step.status
           /\ i' = IF step.status = "ok" THEN i + 1 ELSE i
    /\ UNCHANGED <<args, elevation, distances, brunnels_arg, brunnels, data,
                   constructed_brunnels, result, drop_idx, otherVars>>

(* line 490 *)
Return ==
    /\ pc = "correct"
    /\ ~(i < Len(distances))
    /\ result' = ele_brunnel
    /\ pc' = "done"
    /\ UNCHANGED <<args, elevation, distances, brunnels_arg, brunnels, i, data,
                   constructed_brunnels, ele_brunnel, start_ele, end_ele, drop_idx, otherVars>>

-----------------------------------------------------------------------------
(* The calls of interpolate_brunnels the model makes.                       *)

HalfPositions == {(k * DistanceDelta) \div 2 : k \in 0..MaxHalfSteps}
PathLengths == {p \in HalfPositions : p > DistanceDelta}
Elevations == {0, ConstructBrunnelThresh + 1, ConstructBrunnelThresh + 2,
               -(ConstructBrunnelThresh + 1), -(ConstructBrunnelThresh + 2)}
CoarseElevations == {0, ConstructBrunnelThresh + 1}
MaxLengths == {DefaultMaxLength, DistanceDelta + DistanceDelta \div 2}

(* Profiles up to two and a half steps long take their elevations from      *)
(* Elevations, longer ones from CoarseElevations.                           *)
ElevationsFor(L) ==
    IF 2 * L <= 5 * DistanceDelta THEN Elevations ELSE CoarseElevations

(* Known tables of at most n rows within a path of length L: sorted by      *)
(* start_dist, start_dist < end_dist, each row strictly after the previous. *)
RECURSIVE KnownTables(_, _)
KnownTables(L, n) ==
    IF n = 0 THEN {<<>>}
    ELSE LET shorter == KnownTables(L, n - 1)
         IN  shorter \cup
             {Append(t, Row(Len(t), "bridge", s, e, "known")) :
                 <<t, s, e>> \in {<<t, s, e>> \in shorter \X HalfPositions \X HalfPositions :
                     /\ Len(t) = n - 1
                     /\ s < e /\ e <= L
                     /\ (t # <<>> => Last(t).end_dist < s)}}

Init ==
    \E L \in PathLengths, construct \in BOOLEAN, maxlen \in MaxLengths :
        /\ (~construct => maxlen = DefaultMaxLength)
        /\ pc = "start"
        /\ args = [distance_delta |-> DistanceDelta,
                   construct_brunnels |-> construct,
                   max_bridge_length |-> maxlen,
                   max_tunnel_length |-> maxlen,
                   construct_brunnel_thresh |-> ConstructBrunnelThresh]
        /\ distances = ProfileDistances(L, DistanceDelta)
        /\ elevation \in [1..Len(distances) -> ElevationsFor(L)]
        /\ brunnels_arg \in KnownTables(L, MaxBrunnels)
        /\ brunnels = brunnels_arg
        /\ i = 0
        /\ index = 0
        /\ data = <<>>
        /\ constructed_brunnels = <<>>
        /\ drop_idx = <<>>
        /\ ele_brunnel = <<>>
        /\ start_ele = None
        /\ end_ele = None
        /\ sample_points = <<>>
        /\ sampled = <<>>
        /\ distances_interpolated = <<>>
        /\ window = <<>>
        /\ result = <<>>

Next ==
    \/ Start
    \/ ScanStep
    \/ FilterConstructed
    \/ DropOverlapping
    \/ CopyElevation
    \/ CorrectStep
    \/ Return

Spec == Init /\ [][Next]_vars

-----------------------------------------------------------------------------
(* Vocabulary of the properties.                                            *)

Rows(t) == {t[k] : k \in 1..Len(t)}

(* Two closed intervals share a point.                                      *)
Intersects(a, b) ==
    a.start_dist <= b.end_dist /\ b.start_dist <= a.end_dist

Inside(x, b) == b.start_dist <= x /\ x <= b.end_dist

SameSpan(a, b) ==
    a.start_dist = b.start_dist /\ a.end_dist = b.end_dist

(* The recorded row r is a row of the final table.                          *)
Survives(r) ==
    \E b \in Rows(brunnels) : b.origin = "constructed" /\ SameSpan(r, b)

ConflictsWithKnown(r) ==
    \E k \in Rows(brunnels_arg) : Intersects(r, k)

(* The constructed rows have been filtered and merged into brunnels.        *)
Merged ==
    args.construct_brunnels /\ pc \in {"copy", "correct", "done"}

-----------------------------------------------------------------------------
(* C2: with construct_brunnels enabled, every recorded synthetic interval   *)
(* that shares a point with a known interval (overlapping it, inside it,    *)
(* around it, or touching it at an endpoint) is absent from the table the   *)
(* correction uses; the known rows are all there, unchanged and in order;   *)
(* and no sample distance lies in both a synthetic and a known row.         *)
C2_SyntheticYieldsToKnown ==
    Merged =>
        /\ \A r \in Rows(data) : ConflictsWithKnown(r) => ~Survives(r)
        /\ LET kept == SelectSeq(brunnels, LAMBDA b : b.origin = "known")
           IN  /\ Len(kept) = Len(brunnels_arg)
               /\ \A k \in 1..Len(kept) :
                      kept[k] = [brunnels_arg[k] EXCEPT !.label = kept[k].label]
        /\ \A k \in 1..Len(distances) :
               ~(\E a, b \in Rows(brunnels) :
                    /\ a.origin = "constructed" /\ b.origin = "known"
                    /\ Inside(distances[k], a) /\ Inside(distances[k], b))

(* A recorded interval long enough to pass the length filter lies strictly  *)
(* around a known interval, and the function has returned.                  *)
C2_Witness ==
    /\ pc = "done"
    /\ args.construct_brunnels
    /\ \E r \in Rows(data), k \in Rows(brunnels_arg) :
           /\ r.length > args.distance_delta
           /\ r.start_dist < k.start_dist /\ k.end_dist < r.end_dist

-----------------------------------------------------------------------------
(* C3: after interpolate_brunnels, the samples covered by one interval lie  *)
(* on one straight line: any three consecutive covered samples have zero    *)
(* second difference; and when the elevations at both buffered boundary     *)
(* samples equal v (in the input and in the result), every covered sample   *)
(* is exactly v.                                                            *)
Collinear(x0, y0, x1, y1, x2, y2) ==
    RMul(RSub(y1, y0), ToRat(x2 - x1)) = RMul(RSub(y2, y1), ToRat(x1 - x0))

C3_LinearInsideInterval ==
    pc = "done" =>
        \A b \in Rows(brunnels) :
            /\ \A k \in 1..(Len(distances) - 2) :
                   (/\ Inside(distances[k], b)
                    /\ Inside(distances[k + 2], b)) =>
                       Collinear(distances[k], result[k],
                                 distances[k + 1], result[k + 1],
                                 distances[k + 2], result[k + 2])
            /\ LET s == StartIdx(b, args.distance_delta)
                   e == EndIdx(b, args.distance_delta)
               IN  (/\ s > 0 /\ e < Len(distances) - 1
                    /\ At(elevation, s) = At(elevation, e)
                    /\ At(result, s) = ToRat(At(elevation, s))
                    /\ At(result, e) = ToRat(At(elevation, e))) =>
                       \A k \in 1..Len(distances) :
                           Inside(distances[k], b) => result[k] = At(result, s)

-----------------------------------------------------------------------------
(* C4: interpolate_brunnels never assigns distances or the input elevation, *)
(* and what it returns has the input's length and the input's elevation at  *)
(* every sample whose distance lies in no interval of the final table (so   *)
(* the whole input when there is no interval at all).                       *)
FrameKept ==
    /\ Len(result) = Len(elevation)
    /\ \A k \in 1..Len(elevation) :
           (\A b \in Rows(brunnels) : ~Inside(distances[k], b)) =>
               result[k] = ToRat(elevation[k])

C4_OnlyCoveredSamplesChange ==
    [][/\ distances' = distances
       /\ elevation' = elevation
       /\ (pc' = "done" => FrameKept')]_vars

(* A returned profile with a sample outside every interval and a sample     *)
(* inside one whose elevation was changed.                                  *)
C4_Witness ==
    /\ pc = "done"
    /\ \E k \in 1..Len(distances) : \A b \in Rows(brunnels) : ~Inside(distances[k], b)
    /\ \E k \in 1..Len(distances) :
           /\ \E b \in Rows(brunnels) : Inside(distances[k], b)
           /\ result[k] # ToRat(elevation[k])

-----------------------------------------------------------------------------
(* C8: for a profile in which no two consecutive samples differ by more     *)
(* than the threshold, at whatever level, the scan constructs no synthetic  *)
(* interval: none is recorded and none reaches the final table.             *)
Gentle(e, thresh) ==
    \A k \in 1..(Len(e) - 1) : Abs(e[k + 1] - e[k]) <= thresh

C8_GentleProfileNoSynthetic ==
    (pc = "done" /\ Gentle(elevation, args.construct_brunnel_thresh)) =>
        \A b \in Rows(brunnels) : b.origin # "constructed"

-----------------------------------------------------------------------------
(* C9: in the correction loop, when both buffered boundary indices of the   *)
(* covering interval are outside the strict interior of the profile, the    *)
(* line is drawn between the first and the last elevation sample of the     *)
(* profile; when exactly one is outside, both ends take the elevation at    *)
(* the other boundary index.                                                *)
C9_BoundaryFallbacks ==
    (pc \in {"correct", "done"} /\ i > 0) =>
        \A b \in Rows(brunnels) :
            Inside(At(distances, i - 1), b) =>
                LET s == StartIdx(b, args.distance_delta)
                    e == EndIdx(b, args.distance_delta)
                    n == Len(distances)
                IN  /\ (s <= 0 /\ e >= n - 1) =>
                           /\ start_ele \in {ToRat(At(elevation, 0)), At(ele_brunnel, 0)}
                           /\ end_ele \in {ToRat(At(elevation, n - 1)),
                                           At(ele_brunnel, n - 1)}
                    /\ (s <= 0 /\ e < n - 1) =>
                           /\ start_ele = At(ele_brunnel, e)
                           /\ end_ele = At(ele_brunnel, e)
                    /\ (s > 0 /\ e >= n - 1) =>
                           /\ start_ele = At(ele_brunnel, s)
                           /\ end_ele = At(ele_brunnel, s)

-----------------------------------------------------------------------------
(* C10 as stated: a recorded synthetic interval is dropped for its length   *)
(* exactly when it is shorter than distance_delta: one of length            *)
(* distance_delta or more that conflicts with no known interval is kept,    *)
(* and every shorter one is dropped.                                        *)
C10_KeptUnlessShorterThanStep ==
    Merged =>
        \A r \in Rows(data) :
            /\ (r.length >= args.distance_delta /\ ~ConflictsWithKnown(r)) => Survives(r)
            /\ r.length < args.distance_delta => ~Survives(r)

(* C10 as amended: an interval is dropped for its length exactly when its   *)
(* length is at most distance_delta: one strictly longer that conflicts     *)
(* with no known interval is kept, every other one is dropped.              *)
C10_KeptOnlyIfLongerThanStep ==
    Merged =>
        \A r \in Rows(data) :
            /\ (r.length > args.distance_delta /\ ~ConflictsWithKnown(r)) => Survives(r)
            /\ r.length <= args.distance_delta => ~Survives(r)

(* A recorded interval exactly one step long, clear of every known one,     *)
(* next to one strictly shorter or strictly longer, after the merge.        *)
C10_Witness ==
    /\ Merged
    /\ \E r \in Rows(data) :
           r.length = args.distance_delta /\ ~ConflictsWithKnown(r)
    /\ \E r \in Rows(data) :
           r.length # args.distance_delta /\ ~ConflictsWithKnown(r)

-----------------------------------------------------------------------------
(* The calls of interpolate_brunnels that run the scan: construct_brunnels  *)
(* enabled and no known interval (the scan reads neither), elevations of    *)
(* four levels on every profile length.  The function is sequential code:   *)
(* the while loop runs its next iteration whenever its condition holds, and *)
(* the statement after the loop runs when it does not.                      *)

ScanElevations == {-(ConstructBrunnelThresh + 1), 0, ConstructBrunnelThresh + 1,
                   ConstructBrunnelThresh + 2}

InitScan ==
    \E L \in PathLengths, maxlen \in MaxLengths :
        /\ pc = "start"
        /\ args = [distance_delta |-> DistanceDelta,
                   construct_brunnels |-> TRUE,
                   max_bridge_length |-> maxlen,
                   max_tunnel_length |-> maxlen,
                   construct_brunnel_thresh |-> ConstructBrunnelThresh]
        /\ distances = ProfileDistances(L, DistanceDelta)
        /\ elevation \in [1..Len(distances) -> ScanElevations]
        /\ brunnels_arg = <<>>
        /\ brunnels = brunnels_arg
        /\ i = 0
        /\ index = 0
        /\ data = <<>>
        /\ constructed_brunnels = <<>>
        /\ drop_idx = <<>>
        /\ ele_brunnel = <<>>
        /\ start_ele = None
        /\ end_ele = None
        /\ sample_points = <<>>
        /\ sampled = <<>>
        /\ distances_interpolated = <<>>
        /\ window = <<>>
        /\ result = <<>>

SpecScan ==
    InitScan /\ [][Next]_vars /\ WF_vars(ScanStep) /\ WF_vars(FilterConstructed)

(* The sample index of distance x.                                          *)
SampleOf(x) == CHOOSE k \in 0..(Len(distances) - 1) : At(distances, k) = x

(* The recorded rows are proper, pairwise disjoint and in increasing order. *)
DisjointIncreasing(rows) ==
    /\ \A k \in 1..Len(rows) : rows[k].start_dist < rows[k].end_dist
    /\ \A k \in 1..(Len(rows) - 1) : rows[k].end_dist < rows[k + 1].start_dist

(* One outer iteration: the cursor moves strictly forward and past the end  *)
(* sample of the span it closed, if any; at most one row is recorded, after *)
(* the rows recorded before, starting at the old cursor and ending at the   *)
(* sample just before the new one.                                          *)
ScanForward ==
    (pc = "scan" /\ pc' = "scan") =>
        /\ i < i' /\ i' <= Len(elevation)
        /\ LET kind == SpanKind(elevation, i, args.construct_brunnel_thresh)
               j == IF kind = "none" THEN -1 ELSE ReturnIndex(elevation, i, kind)
           IN  j >= 0 => i' > j
        /\ \/ data' = data
           \/ /\ Len(data') = Len(data) + 1
              /\ SubSeq(data', 1, Len(data)) = data
              /\ Last(data').start_dist = At(distances, i)
              /\ Last(data').end_dist = At(distances, i' - 1)
              /\ i < i' - 1

(* C11: the steep-region scan is a single forward pass: every outer         *)
(* iteration moves the cursor i strictly forward (also when the span it     *)
(* closed is rejected as too long, and when no return point is found); the  *)
(* scan ends; every recorded span ends at a sample before the cursor, so    *)
(* the next one starts strictly after it; and the recorded intervals are    *)
(* pairwise disjoint and in increasing order.                               *)
C11_ScanSinglePass ==
    /\ [][ScanForward]_vars
    /\ [](pc = "scan" => \A r \in Rows(data) : SampleOf(r.end_dist) < i)
    /\ [](DisjointIncreasing(data))
    /\ (pc = "scan" ~> pc = "overlap")

(* The scan has ended; the span starting at the first sample was closed and *)
(* rejected as too long, and a span was recorded after it.                  *)
C11_Witness ==
    /\ pc = "overlap"
    /\ Len(data) = 1
    /\ LET kind == SpanKind(elevation, 0, args.construct_brunnel_thresh)
           j == IF kind = "none" THEN -1 ELSE ReturnIndex(elevation, 0, kind)
       IN  /\ j >= 0
           /\ At(distances, j) - At(distances, 0) > args.max_tunnel_length
           /\ data[1].start_dist > At(distances, j)

-----------------------------------------------------------------------------
(* interpolate_brunnels_old.  The trip is a straight line from 0 to its     *)
(* length and a brunnel geometry a sequence of coordinates along it.        *)

MaxOldBrunnels == 3      \* rows of the brunnels frame passed to interpolate_brunnels_old
BufferFactor == 1        \* buffer_factor=1, the default

(* trip_geom.project(point): the distance along the trip of its point       *)
(* nearest to the given one.                                                *)
TripProject(p, L) == IF p < 0 THEN 0 ELSE IF p > L THEN L ELSE p

(* GeoDataFrame.length: the length of the line through the coordinates.     *)
RECURSIVE GeomLength(_)
GeomLength(g) ==
    IF Len(g) < 2 THEN 0 ELSE Abs(g[2] - g[1]) + GeomLength(Tail(g))

(* lines 203-219: start_dist and end_dist of one row, forward-oriented.     *)
ProjectRow(r, L) ==
    LET start_point == r.geom[1]
        end_point == Last(r.geom)
        swap == TripProject(start_point, L) > TripProject(end_point, L)
        sp == IF swap THEN end_point ELSE start_point
        ep == IF swap THEN start_point ELSE end_point
    IN  [label |-> r.label, geom |-> r.geom,
         start_dist |-> TripProject(sp, L), end_dist |-> TripProject(ep, L)]

(* lines 200-223: project every row, sort by start_dist, reset the index.   *)
ProjectAndSort(rows, L) ==
    ResetIndex(SortByStart([k \in 1..Len(rows) |-> ProjectRow(rows[k], L)]))

(* lines 232-240: the frame after the iteration for the row labelled k,     *)
(* brunnel being the row as iterrows yields it.                             *)
MergeRow(rows, brunnel, k, merge_distance) ==
    IF k > 0 /\ brunnel.start_dist <= At(rows, k - 1).end_dist + merge_distance
    THEN LET t1 == [rows EXCEPT ![k].end_dist = brunnel.end_dist,
                                ![k].geom = At(rows, k - 1).geom \o brunnel.geom]
         IN  [t1 EXCEPT ![k + 1].start_dist = At(t1, k - 1).start_dist,
                        ![k + 1].geom = At(t1, k - 1).geom \o brunnel.geom]
    ELSE rows

(* line 232: the row labelled k is merged into the previous one.            *)
Merges(rows, brunnel, k, merge_distance) ==
    k > 0 /\ brunnel.start_dist <= At(rows, k - 1).end_dist + merge_distance

(* line 245: brunnels[brunnels.length > filter_brunnel_length]              *)
FilterShort(rows, filter_brunnel_length) ==
    SelectSeq(rows, LAMBDA r : GeomLength(r.geom) > filter_brunnel_length)

(* lines 255-256 *)
OldCovering(x, rows, buf) ==
    {k \in 0..(Len(rows) - 1) : x >= At(rows, k).start_dist - buf
                                /\ x <= At(rows, k).end_dist + buf}

(* One iteration of the for loop, lines 251-305, for sample k.              *)
OldCorrectSample(eb, rows, d, k, dd, buffer_factor) ==
    LET x == At(d, k)
        idx == OldCovering(x, rows, buffer_factor * dd)
    IN  IF Cardinality(idx) > 1 THEN
            [status |-> "AssertionError", ele |-> eb, start_ele |-> None,
             end_ele |-> None]
        ELSE IF idx = {} THEN
            [status |-> "ok", ele |-> eb, start_ele |-> None, end_ele |-> None]
        ELSE
            LET b == At(rows, CHOOSE c \in idx : TRUE)
                ends == EndpointElevations(eb, rows,
                                           Round(b.start_dist, dd) - buffer_factor,
                                           Round(b.end_dist, dd) + buffer_factor, dd)
            IN  IF ends.status # "ok" THEN
                    [status |-> ends.status, ele |-> eb, start_ele |-> None,
                     end_ele |-> None]
                ELSE
                    [status |-> "ok",
                     ele |-> [eb EXCEPT ![k + 1] =
                                 LineAt(b.start_dist - buffer_factor * dd, ends.start_ele,
                                        b.end_dist + buffer_factor * dd, ends.end_ele, x)],
                     start_ele |-> ends.start_ele, end_ele |-> ends.end_ele]

(* never assigned by interpolate_brunnels_old *)
oldOtherVars == <<constructed_brunnels, sample_points, sampled,
                  distances_interpolated, window>>

(* lines 200-225: the frame is the caller's, changed in place; data is the  *)
(* rows as iterrows will yield them.                                        *)
OldProject ==
    /\ pc = "start"
    /\ brunnels' = ProjectAndSort(brunnels, Last(distances))
    /\ brunnels_arg' = brunnels'
    /\ data' = brunnels'
    /\ drop_idx' = <<>>
    /\ index' = 0
    /\ pc' = "merge"
    /\ UNCHANGED <<args, elevation, distances, i, ele_brunnel, start_ele, end_ele,
                   result, oldOtherVars>>

(* lines 226-240: one iteration of the merge loop *)
OldMergeStep ==
    /\ pc = "merge"
    /\ index < Len(data)
    /\ brunnels' = MergeRow(brunnels, At(data, index), index, args.merge_distance)
    /\ brunnels_arg' = brunnels'
    /\ drop_idx' = IF Merges(brunnels, At(data, index), index, args.merge_distance)
                   THEN Append(drop_idx, index) ELSE drop_idx
    /\ index' = index + 1
    /\ UNCHANGED <<pc, args, elevation, distances, i, data, ele_brunnel, start_ele,
                   end_ele, result, oldOtherVars>>

(* line 242: brunnels.drop(drop_idx, inplace=True) *)
OldDrop ==
    /\ pc = "merge"
    /\ ~(index < Len(data))
    /\ brunnels' = DropRows(brunnels, drop_idx)
    /\ brunnels_arg' = brunnels'
    /\ pc' = "filter"
    /\ UNCHANGED <<args, elevation, distances, i, index, data, drop_idx, ele_brunnel,
                   start_ele, end_ele, result, oldOtherVars>>

(* lines 245-250: a new frame is bound to the local name *)
OldFilter ==
    /\ pc = "filter"
    /\ brunnels' = FilterShort(brunnels, args.filter_brunnel_length)
    /\ ele_brunnel' = RatSeq(elevation)
    /\ i' = 0
    /\ pc' = "correct"
    /\ UNCHANGED <<args, elevation, distances, brunnels_arg, index, data, drop_idx,
                   start_ele, end_ele, result, oldOtherVars>>

(* lines 251-305: one iteration of the for loop *)
OldCorrectStep ==
    /\ pc = "correct"
    /\ i < Len(distances)
    /\ LET step == OldCorrectSample(ele_brunnel, brunnels, distances, i,
                                    args.distance_delta, args.buffer_factor)
       IN  /\ ele_brunnel' = step.ele
           /\ start_ele' = step.start_ele
           /\ end_ele' = step.end_ele
           /\ pc' = IF step.status = "ok" THEN "correct" ELSE step.status
           /\ i' = IF step.status = "ok" THEN i + 1 ELSE i
    /\ UNCHANGED <<args, elevation, distances, brunnels_arg, brunnels, index, data,
                   drop_idx, result, oldOtherVars>>

(* line 307 *)
OldReturn ==
    /\ pc = "correct"
    /\ ~(i < Len(distances))
    /\ result' = ele_brunnel
    /\ pc' = "done"
    /\ UNCHANGED <<args, elevation, distances, brunnels_arg, brunnels, i, index, data,
                   drop_idx, ele_brunnel, start_ele, end_ele, oldOtherVars>>

(* The calls of interpolate_brunnels_old the model makes.                   *)
OldPathLength == DistanceDelta + DistanceDelta \div 2
OldPositions == {p \in HalfPositions : p <= OldPathLength}
OldTolerances == {0, DistanceDelta \div 2}
OldGeoms == {<<a, b>> : <<a, b>> \in {<<a, b>> \in OldPositions \X OldPositions : a # b}}
OldFrames ==
    UNION {{[k \in 1..n |-> [label |-> k - 1, geom |-> g[k]]] : g \in [1..n -> OldGeoms]} :
              n \in 0..MaxOldBrunnels}

InitOld ==
    \E merge_distance \in OldTolerances, filter_brunnel_length \in OldTolerances :
        /\ pc = "start"
        /\ args = [distance_delta |-> DistanceDelta,
                   merge_distance |-> merge_distance,
                   filter_brunnel_length |-> filter_brunnel_length,
                   buffer_factor |-> BufferFactor]
        /\ distances = ProfileDistances(OldPathLength, DistanceDelta)
        /\ elevation \in [1..Len(distances) -> CoarseElevations]
        /\ brunnels_arg \in OldFrames
        /\ brunnels = brunnels_arg
        /\ i = 0
        /\ index = 0
        /\ data = <<>>
        /\ constructed_brunnels = <<>>
        /\ drop_idx = <<>>
        /\ ele_brunnel = <<>>
        /\ start_ele = None
        /\ end_ele = None
        /\ sample_points = <<>>
        /\ sampled = <<>>
        /\ distances_interpolated = <<>>
        /\ window = <<>>
        /\ result = <<>>

NextOld ==
    \/ OldProject
    \/ OldMergeStep
    \/ OldDrop
    \/ OldFilter
    \/ OldCorrectStep
    \/ OldReturn

SpecOld == InitOld /\ [][NextOld]_vars

-----------------------------------------------------------------------------
(* C1: once the intervals have gone through the merge and filter pass and   *)
(* are sorted with consecutive ones more than merge_distance apart, the     *)
(* correction loop finds no sample covered by more than one interval: the   *)
(* assertion idx.size <= 1 does not fail.                                   *)
WellSeparated(rows, merge_distance) ==
    \A k \in 1..(Len(rows) - 1) :
        /\ rows[k].start_dist <= rows[k + 1].start_dist
        /\ rows[k + 1].start_dist > rows[k].end_dist + merge_distance

C1_AssertionNeverFails ==
    (pc \in {"correct", "done", "AssertionError"}
     /\ WellSeparated(brunnels, args.merge_distance)) =>
        pc # "AssertionError"

-----------------------------------------------------------------------------
(* C7: after the merge pass of interpolate_brunnels_old, every row of the   *)
(* sorted input lies within the surviving row it was merged into (the       *)
(* nearest kept row at or before it), and consecutive surviving rows are    *)
(* more than merge_distance apart.                                          *)
Survivor(k) ==
    LET kept == {r \in Rows(brunnels) : r.label <= k}
    IN  CHOOSE r \in kept : \A q \in kept : q.label <= r.label

C7_MergeCoversAndSeparates ==
    pc = "filter" =>
        /\ \A k \in 0..(Len(data) - 1) :
               /\ Survivor(k).start_dist <= At(data, k).start_dist
               /\ At(data, k).end_dist <= Survivor(k).end_dist
        /\ \A k \in 1..(Len(brunnels) - 1) :
               brunnels[k + 1].start_dist > brunnels[k].end_dist + args.merge_distance

-----------------------------------------------------------------------------
(* elevation_profile, lines 149-164.  The line runs straight from (0, 0) to *)
(* (length, 0); the raster is one row of cells CellWidth wide, sampled      *)
(* without interpolation.                                                   *)

MaxLineLength == 12      \* line lengths 1 .. MaxLineLength
MaxDistance == 5         \* sampling steps 1 .. MaxDistance
CellWidth == 4           \* width of a raster cell

(* line.interpolate(d): the point of the line at distance d from its start. *)
LineInterpolate(d, length) ==
    <<IF d < 0 THEN 0 ELSE IF d > length THEN length ELSE d, 0>>

(* line.boundary[1]: the end point of the line.                             *)
LineEnd(length) == <<length, 0>>

(* lines 67-70: sample_coords with interpolated=False, the value of the     *)
(* raster cell containing the point.                                        *)
SampleCoords(elev, p_x, p_y) == At(elev, p_x \div CellWidth)

(* lines 149-150 *)
SamplePoints(length, distance) ==
    LET ds == Arange(length, distance)
    IN  Append([k \in 1..Len(ds) |-> LineInterpolate(ds[k], length)], LineEnd(length))

(* never assigned by elevation_profile *)
profileOtherVars == <<elevation, brunnels_arg, brunnels, index, data,
                      constructed_brunnels, drop_idx, ele_brunnel, start_ele, end_ele,
                      distances_interpolated, window>>

(* lines 149-154 *)
ProfileStart ==
    /\ pc = "start"
    /\ distances' = Arange(args.length, args.distance)
    /\ sample_points' = SamplePoints(args.length, args.distance)
    /\ sampled' = [x_coords |-> <<>>, y_coords |-> <<>>, elevation |-> <<>>]
    /\ i' = 0
    /\ pc' = "sample"
    /\ UNCHANGED <<args, result, profileOtherVars>>

(* lines 156-162: one iteration of the for loop *)
ProfileSample ==
    /\ pc = "sample"
    /\ i < Len(sample_points)
    /\ LET p_x == At(sample_points, i)[1]
           p_y == At(sample_points, i)[2]
       IN  sampled' = [x_coords |-> Append(sampled.x_coords, p_x),
                       y_coords |-> Append(sampled.y_coords, p_y),
                       elevation |-> Append(sampled.elevation,
                                            SampleCoords(args.elev, p_x, p_y))]
    /\ i' = i + 1
    /\ UNCHANGED <<pc, args, distances, sample_points, result, profileOtherVars>>

(* line 164 *)
ProfileReturn ==
    /\ pc = "sample"
    /\ ~(i < Len(sample_points))
    /\ result' = <<sampled.x_coords, sampled.y_coords,
                   Append(distances, args.length), sampled.elevation>>
    /\ pc' = "done"
    /\ UNCHANGED <<args, distances, i, sample_points, sampled, profileOtherVars>>

Rasters == [1..(MaxLineLength \div CellWidth + 1) -> CoarseElevations]

InitProfile ==
    /\ pc = "start"
    /\ args \in [length : 1..MaxLineLength, distance : 1..MaxDistance,
                 elev : Rasters]
    /\ elevation = <<>>
    /\ distances = <<>>
    /\ brunnels_arg = <<>>
    /\ brunnels = <<>>
    /\ i = 0
    /\ index = 0
    /\ data = <<>>
    /\ constructed_brunnels = <<>>
    /\ drop_idx = <<>>
    /\ ele_brunnel = <<>>
    /\ start_ele = None
    /\ end_ele = None
    /\ sample_points = <<>>
    /\ sampled = <<>>
    /\ distances_interpolated = <<>>
    /\ window = <<>>
    /\ result = <<>>

NextProfile ==
    \/ ProfileStart
    \/ ProfileSample
    \/ ProfileReturn

SpecProfile == InitProfile /\ [][NextProfile]_vars

-----------------------------------------------------------------------------
(* C5: for a line of length L > 0 and a step > 0, elevation_profile returns *)
(* four lists of one length, entry k of each belonging to the same sample   *)
(* point; the distances start at 0, increase strictly, end at L, and every  *)
(* spacing is the step except the last, which is above 0 and at most the    *)
(* step.                                                                    *)
C5_ProfileDistances ==
    pc = "done" =>
        LET xs == result[1]
            ys == result[2]
            ds == result[3]
            es == result[4]
            n == Len(ds)
        IN  /\ Len(xs) = n /\ Len(ys) = n /\ Len(es) = n
            /\ n >= 2
            /\ ds[1] = 0
            /\ ds[n] = args.length
            /\ \A k \in 1..(n - 1) : ds[k + 1] > ds[k]
            /\ \A k \in 1..(n - 2) : ds[k + 1] - ds[k] = args.distance
            /\ ds[n] - ds[n - 1] > 0
            /\ ds[n] - ds[n - 1] <= args.distance
            /\ \A k \in 1..n :
                   /\ <<xs[k], ys[k]>> = <<ds[k], 0>>
                   /\ es[k] = At(args.elev, ds[k] \div CellWidth)

(* A returned profile of several steps whose last segment is shorter than   *)
(* the step.                                                                *)
C5_Witness ==
    /\ pc = "done"
    /\ Len(result[3]) >= 4
    /\ args.length % args.distance # 0
    /\ args.distance > 1

-----------------------------------------------------------------------------
(* resample_ele, lines 544-551.                                             *)

MaxResampleSamples == 3  \* samples of the resampled profile
MaxLastDistance == 7     \* input distances 0 .. MaxLastDistance

(* The grid left without the input's last distance.                         *)
WithoutLastDistance(grid, last) == grid

(* lines 546-547 *)
WithLastDistance(grid, last) ==
    IF Last(grid) <= last THEN Append(grid, last) ELSE grid

(* np.interp(x, xp, fp) for increasing xp: fp held flat outside xp, linear  *)
(* between neighbouring points inside.                                      *)
Interp(x, xp, fp) ==
    IF x >= Last(xp) THEN ToRat(Last(fp))
    ELSE IF x < xp[1] THEN ToRat(fp[1])
    ELSE LET j == CHOOSE k \in 1..(Len(xp) - 1) : xp[k] <= x /\ x < xp[k + 1]
         IN  RAdd(ToRat(fp[j]),
                  RDiv(ToRat((fp[j + 1] - fp[j]) * (x - xp[j])),
                       ToRat(xp[j + 1] - xp[j])))

(* never assigned by resample_ele *)
resampleOtherVars == <<args, elevation, distances, brunnels_arg, brunnels, i, index,
                       data, constructed_brunnels, drop_idx, ele_brunnel, start_ele,
                       end_ele, sample_points, sampled, window>>

(* lines 544-547: distances_interpolated[-1] of an empty grid raises *)
ResampleGrid ==
    /\ pc = "start"
    /\ LET grid == Arange(Last(distances), args.distance)
       IN  IF grid = <<>>
           THEN /\ distances_interpolated' = grid
                /\ pc' = "IndexError"
           ELSE /\ distances_interpolated' = WithLastDistance(grid, Last(distances))
                /\ pc' = "interp"
    /\ UNCHANGED <<result, resampleOtherVars>>

(* lines 549-551 *)
ResampleInterp ==
    /\ pc = "interp"
    /\ result' = <<distances_interpolated,
                   [k \in 1..Len(distances_interpolated) |->
                       Interp(distances_interpolated[k], distances, elevation)]>>
    /\ pc' = "done"
    /\ UNCHANGED <<distances_interpolated, resampleOtherVars>>

(* Input distances: increasing sequences of 1 .. n values.                  *)
RECURSIVE IncreasingSeqs(_)
IncreasingSeqs(n) ==
    IF n = 0 THEN {<<>>}
    ELSE LET shorter == IncreasingSeqs(n - 1)
         IN  shorter \cup
             {Append(t, d) : <<t, d>> \in {<<t, d>> \in shorter \X (0..MaxLastDistance) :
                                 Len(t) = n - 1 /\ (t # <<>> => Last(t) < d)}}

InitResample ==
    /\ pc = "start"
    /\ args \in [distance : 1..MaxDistance]
    /\ distances \in IncreasingSeqs(MaxResampleSamples) \ {<<>>}
    /\ elevation \in [1..Len(distances) -> CoarseElevations]
    /\ brunnels_arg = <<>>
    /\ brunnels = <<>>
    /\ i = 0
    /\ index = 0
    /\ data = <<>>
    /\ constructed_brunnels = <<>>
    /\ drop_idx = <<>>
    /\ ele_brunnel = <<>>
    /\ start_ele = None
    /\ end_ele = None
    /\ sample_points = <<>>
    /\ sampled = <<>>
    /\ distances_interpolated = <<>>
    /\ window = <<>>
    /\ result = <<>>

NextResample ==
    \/ ResampleGrid
    \/ ResampleInterp

SpecResample == InitResample /\ [][NextResample]_vars

-----------------------------------------------------------------------------
(* C6: for a step > 0 and increasing input distances, resample_ele returns  *)
(* a distance list and an elevation list of one length; the distances are   *)
(* the multiples 0, step, 2*step, ... of the step strictly below the        *)
(* input's last distance, all of them, followed by the input's last         *)
(* distance as the final entry, so no distance occurs twice.  (Nothing is   *)
(* returned only for an input whose last distance is 0, which has no grid.) *)
C6_ResampleGrid ==
    /\ pc = "IndexError" => Last(distances) <= 0
    /\ pc = "done" =>
        LET ds == result[1]
            n == Len(ds)
            last == Last(distances)
        IN  /\ Len(result[2]) = n
            /\ n >= 2
            /\ \A k \in 1..(n - 1) : ds[k] = (k - 1) * args.distance /\ ds[k] < last
            /\ (n - 1) * args.distance >= last
            /\ ds[n] = last
            /\ \A k, h \in 1..n : k # h => ds[k] # ds[h]

(* A returned resampling of a profile whose last distance is a multiple of  *)
(* the step, with at least two grid points before it.                       *)
C6_Witness ==
    /\ pc = "done"
    /\ Last(distances) % args.distance = 0
    /\ Len(result[1]) >= 3

-----------------------------------------------------------------------------
(* sample_coords, lines 66-121.  The raster is north-up: GridRows rows and  *)
(* GridCols columns of square cells 2 * HalfCell wide, its top-left corner  *)
(* at (0, Top); x grows with the column and y falls as the row grows.       *)
(* Coordinates are integers, so a cell's centre is one.  Cell (r, c) holds  *)
(* the elevation r * GridCols + c.                                          *)

GridRows == 5            \* rows of the raster
GridCols == 6            \* columns of the raster
HalfCell == 2            \* half the width of a raster cell

CellSize == 2 * HalfCell
Top == GridRows * CellSize

(* self.elev: the band as a sequence of rows.                               *)
Elev == [r \in 1..GridRows |-> [c \in 1..GridCols |-> (r - 1) * GridCols + (c - 1)]]

(* dem.index(x, y): the cell containing the point, indices rounded down.    *)
DemIndex(x, y) == <<(Top - y) \div CellSize, x \div CellSize>>

(* dem.xy(row, col): the centre of the cell, inside the raster or not.      *)
DemXY(row, col) == <<col * CellSize + HalfCell, Top - row * CellSize - HalfCell>>

(* The four offsets once an if has assigned them, and before.               *)
Offsets(row_from, row_to, col_from, col_to) ==
    [bound |-> TRUE, row_from |-> row_from, row_to |-> row_to,
     col_from |-> col_from, col_to |-> col_to]

Unbound ==
    [bound |-> FALSE, row_from |-> 0, row_to |-> 0, col_from |-> 0, col_to |-> 0]

(* The table whose rows follow the point northwards only.                   *)
QuadrantOffsetsNorthOnly(p_x, p_y, r_x, r_y) ==
    LET o1 == IF p_x <= r_x /\ p_y <= r_y
              THEN Offsets(-2, 1, -2, 1)
              ELSE Unbound
        o2 == IF p_x >= r_x /\ p_y <= r_y
              THEN Offsets(-2, 1, -1, 2)
              ELSE o1
        o3 == IF p_x >= r_x /\ p_y >= r_y
              THEN Offsets(-2, 1, -1, 2)
              ELSE o2
    IN  IF p_x <= r_x /\ p_y >= r_y
        THEN Offsets(-2, 1, -2, 1)
        ELSE o3

(* lines 76-95: four ifs in sequence, a later one overriding an earlier.    *)
QuadrantOffsets(p_x, p_y, r_x, r_y) ==
    LET o1 == IF p_x <= r_x /\ p_y <= r_y
              THEN Offsets(-1, 2, -2, 1)
              ELSE Unbound
        o2 == IF p_x >= r_x /\ p_y <= r_y
              THEN Offsets(-1, 2, -1, 2)
              ELSE o1
        o3 == IF p_x >= r_x /\ p_y >= r_y
              THEN Offsets(-2, 1, -1, 2)
              ELSE o2
    IN  IF p_x <= r_x /\ p_y >= r_y
        THEN Offsets(-2, 1, -2, 1)
        ELSE o3

(* A bound of a numpy slice of n entries: negative counts from the end,     *)
(* and the result is clipped to 0 .. n.                                     *)
SliceBound(b, n) ==
    IF b < 0 THEN (IF b + n < 0 THEN 0 ELSE b + n)
    ELSE IF b > n THEN n ELSE b

(* s[from:to] *)
NpSlice(s, from, to) ==
    LET a == SliceBound(from, Len(s))
        b == SliceBound(to, Len(s))
    IN  IF a >= b THEN <<>> ELSE SubSeq(s, a + 1, b)

RECURSIVE Flatten(_)
Flatten(rows) == IF rows = <<>> THEN <<>> ELSE Head(rows) \o Flatten(Tail(rows))

(* lines 103-104: self.elev[row_from:row_to + 1, col_from:col_to + 1],      *)
(* flattened row by row.                                                    *)
WindowValues(elev, w) ==
    LET rows == NpSlice(elev, w.row_from, w.row_to + 1)
    IN  Flatten([k \in 1..Len(rows) |-> NpSlice(rows[k], w.col_from, w.col_to + 1)])

(* lines 110-113: the inner loop for one row.                               *)
RowCentres(row, col_from, col_to) ==
    [k \in 1..(col_to - col_from + 1) |-> DemXY(row, col_from + k - 1)]

(* never assigned by sample_coords *)
coordsOtherVars == <<elevation, distances, brunnels_arg, brunnels, index, data,
                     constructed_brunnels, drop_idx, ele_brunnel, start_ele, end_ele,
                     sample_points, sampled, distances_interpolated>>

(* lines 67-73 *)
CoordsLocate ==
    /\ pc = "start"
    /\ LET cell == DemIndex(args.p_x, args.p_y)
           centre == DemXY(cell[1], cell[2])
       IN  IF ~args.interpolated
           THEN /\ window' = [row |-> cell[1], col |-> cell[2]]
                /\ result' = At(At(Elev, cell[1]), cell[2])
                /\ pc' = "done"
           ELSE /\ window' = [row |-> cell[1], col |-> cell[2],
                              r_x |-> centre[1], r_y |-> centre[2]]
                /\ result' = result
                /\ pc' = "offsets"
    /\ UNCHANGED <<args, i, coordsOtherVars>>

(* lines 76-100 *)
CoordsOffsets ==
    /\ pc = "offsets"
    /\ LET o == QuadrantOffsets(args.p_x, args.p_y, window.r_x, window.r_y)
       IN  IF ~o.bound
           THEN /\ window' = window
                /\ pc' = "UnboundLocalError"
           ELSE /\ window' = [row |-> window.row, col |-> window.col,
                              r_x |-> window.r_x, r_y |-> window.r_y,
                              row_from |-> o.row_from + window.row,
                              row_to |-> o.row_to + window.row,
                              col_from |-> o.col_from + window.col,
                              col_to |-> o.col_to + window.col]
                /\ pc' = "slice"
    /\ UNCHANGED <<args, i, result, coordsOtherVars>>

(* lines 103-108 *)
CoordsSlice ==
    /\ pc = "slice"
    /\ window' = [row |-> window.row, col |-> window.col,
                  r_x |-> window.r_x, r_y |-> window.r_y,
                  row_from |-> window.row_from, row_to |-> window.row_to,
                  col_from |-> window.col_from, col_to |-> window.col_to,
                  z |-> WindowValues(Elev, window),
                  x_coors |-> <<>>, y_coors |-> <<>>]
    /\ i' = window.row_from
    /\ pc' = "coords"
    /\ UNCHANGED <<args, result, coordsOtherVars>>

(* lines 109-113: one iteration of the outer loop, which rebinds row and    *)
(* col                                                                      *)
CoordsRow ==
    /\ pc = "coords"
    /\ i <= window.row_to
    /\ LET centres == RowCentres(i, window.col_from, window.col_to)
       IN  window' = [window EXCEPT
                         !.row = i,
                         !.col = window.col_to,
                         !.x_coors = @ \o [k \in 1..Len(centres) |-> centres[k][1]],
                         !.y_coors = @ \o [k \in 1..Len(centres) |-> centres[k][2]]]
    /\ i' = i + 1
    /\ UNCHANGED <<pc, args, result, coordsOtherVars>>

(* lines 117-121: interp2d rejects a z that is not one value per point;     *)
(* otherwise the result is the cubic fit through the points, at the query.  *)
CoordsInterpolate ==
    /\ pc = "coords"
    /\ ~(i <= window.row_to)
    /\ IF Len(window.z) # Len(window.x_coors)
       THEN /\ result' = result
            /\ pc' = "ValueError"
       ELSE /\ result' = [fit |-> "cubic", x |-> window.x_coors, y |-> window.y_coors,
                          z |-> window.z, at |-> <<args.p_x, args.p_y>>]
            /\ pc' = "done"
    /\ UNCHANGED <<args, i, window, coordsOtherVars>>

(* The query points of the raster: every point with integer coordinates     *)
(* that has a containing cell.                                              *)
QueryXs == 0..(GridCols * CellSize - 1)
QueryYs == 1..Top

InitCoords ==
    /\ pc = "start"
    /\ args \in [p_x : QueryXs, p_y : QueryYs, interpolated : BOOLEAN]
    /\ elevation = <<>>
    /\ distances = <<>>
    /\ brunnels_arg = <<>>
    /\ brunnels = <<>>
    /\ i = 0
    /\ index = 0
    /\ data = <<>>
    /\ constructed_brunnels = <<>>
    /\ drop_idx = <<>>
    /\ ele_brunnel = <<>>
    /\ start_ele = None
    /\ end_ele = None
    /\ sample_points = <<>>
    /\ sampled = <<>>
    /\ distances_interpolated = <<>>
    /\ window = <<>>
    /\ result = <<>>

NextCoords ==
    \/ CoordsLocate
    \/ CoordsOffsets
    \/ CoordsSlice
    \/ CoordsRow
    \/ CoordsInterpolate

SpecCoords == InitCoords /\ [][NextCoords]_vars

-----------------------------------------------------------------------------
(* C12: in sample_coords with interpolated=True, for every query point of   *)
(* its containing cell (row, col), also one exactly on the x or the y of    *)
(* the cell's centre, the selected window is 4 consecutive rows by 4        *)
(* consecutive columns and contains (row, col); it has two further rows     *)
(* (columns) on the side of the centre where the point lies and one on the  *)
(* other side; and the point lies between the centres of the 2nd and 3rd    *)
(* row and of the 2nd and 3rd column of the window.  The 16 supporting      *)
(* coordinates are the centres of the window's cells, row by row, and when  *)
(* the window lies inside the raster the 16 values are those cells' values. *)
Selected == args.interpolated /\ pc \in {"slice", "coords", "ValueError", "done"}

Between(a, x, b) == (a <= x /\ x <= b) \/ (b <= x /\ x <= a)

WindowInside ==
    /\ 0 <= window.row_from /\ window.row_to <= GridRows - 1
    /\ 0 <= window.col_from /\ window.col_to <= GridCols - 1

C12_WindowAroundPoint ==
    /\ pc # "UnboundLocalError"
    /\ Selected =>
          LET cell == DemIndex(args.p_x, args.p_y)
              row == cell[1]
              col == cell[2]
              w == window
          IN  /\ w.row_to = w.row_from + 3
              /\ w.col_to = w.col_from + 3
              /\ w.row_from <= row /\ row <= w.row_to
              /\ w.col_from <= col /\ col <= w.col_to
              \* y falls as the row grows: a point south of the centre has
              \* the two further rows after row, one north of it before row
              /\ args.p_y < w.r_y => w.row_from = row - 1
              /\ args.p_y > w.r_y => w.row_from = row - 2
              /\ args.p_x > w.r_x => w.col_from = col - 1
              /\ args.p_x < w.r_x => w.col_from = col - 2
              /\ Between(DemXY(w.row_from + 1, col)[2], args.p_y,
                         DemXY(w.row_from + 2, col)[2])
              /\ Between(DemXY(row, w.col_from + 1)[1], args.p_x,
                         DemXY(row, w.col_from + 2)[1])
    /\ (args.interpolated /\ pc \in {"ValueError", "done"}) =>
          /\ Len(window.x_coors) = 16 /\ Len(window.y_coors) = 16
          /\ \A r, c \in 0..3 :
                 <<At(window.x_coors, 4 * r + c), At(window.y_coors, 4 * r + c)>>
                     = DemXY(window.row_from + r, window.col_from + c)
          /\ WindowInside =>
                 /\ pc = "done"
                 /\ \A r, c \in 0..3 :
                        At(window.z, 4 * r + c)
                            = At(At(Elev, window.row_from + r), window.col_from + c)

(* An interpolated sample has returned for a point on the x of its cell's   *)
(* centre and off its y, the window inside the raster.                      *)
C12_Witness ==
    /\ pc = "done"
    /\ args.interpolated
    /\ args.p_x = DemXY(0, DemIndex(args.p_x, args.p_y)[2])[1]
    /\ args.p_y # DemXY(DemIndex(args.p_x, args.p_y)[1], 0)[2]
    /\ WindowInside
====
